---------------------------- MODULE Spec2Model ----------------------------
(***************************************************************************)
(* The Formatter of packages/providers (formatter.js) and the seeded byte  *)
(* generator (randomBytes), as state machines.  A state holds one call:    *)
(* the object the caller passes (obj), a copy of it taken before the call  *)
(* (arg), the operation (op) and what the call produced (out).             *)
(*                                                                         *)
(* JavaScript values are tagged tuples, the tag first: <<"undefined">>,    *)
(* <<"null">>, <<"number", n>>, <<"string", chars>>, <<"array", seq>>,     *)
(* <<"object", fields>>, <<"BigNumber", n>>.  A string is the sequence of  *)
(* its characters, so that prefixing, lower-casing, slicing and matching   *)
(* are computed character by character.                                    *)
(***************************************************************************)
EXTENDS Integers, Sequences, FiniteSets, TLC

VARIABLES
    pc,     \* "ready" before the call, "done" after it, "reapplied"
    kind,   \* the format the raw object was drawn for
    op,     \* the operation called
    arg,    \* the raw value as it was when the call was made
    obj,    \* the raw value the caller holds
    out,    \* what the call returned or threw
    again   \* what check returned or threw on the record in out

vars == <<pc, kind, op, arg, obj, out, again>>

-----------------------------------------------------------------------------
(* JavaScript values *)

Undef == <<"undefined">>
Null == <<"null">>
Num(n) == <<"number", n>>
Str(s) == <<"string", s>>
Arr(a) == <<"array", a>>
Obj(o) == <<"object", o>>
Bool(b) == <<"boolean", b>>
\* A BigNumber whose value fits the model's integers.
BN(n) == <<"BigNumber", n>>
\* A BigNumber too wide for them: its significant hex digits, more than
\* SmallHexDigits of them.
WideBN(digits) == <<"WideBigNumber", digits>>

TypeOf(val) == val[1]

\* value == null
IsNullish(val) == TypeOf(val) \in {"undefined", "null"}

\* !value
IsFalsish(val) ==
    \/ IsNullish(val)
    \/ val = Num(0)
    \/ val = Str(<<>>)
    \/ val = Bool(FALSE)

\* object[key]: an absent property reads as undefined.
Get(o, key) == IF key \in DOMAIN o THEN o[key] ELSE Undef

\* object[key] = val
Put(o, key, val) ==
    [k \in (DOMAIN o) \cup {key} |-> IF k = key THEN val ELSE o[k]]

\* The outcome of a call: a returned value, or a thrown error with its
\* message and the checkKey and checkValue properties (undefined until set).
Ok(val) == <<"ok", val>>
Throw(msg) == <<"throw", <<msg, Undef, Undef>>>>
IsOk(r) == r[1] = "ok"
Key(k) == <<"key", k>>

\* F(val) with val evaluated once: `const x = val; ... x ... x ...`.
Bind(val, F(_)) == CHOOSE y \in {F(x) : x \in {val}} : TRUE

-----------------------------------------------------------------------------
(* Characters and strings *)

Chars(n, c) == [i \in 1..n |-> c]

DecDigits == {"0", "1", "2", "3", "4", "5", "6", "7", "8", "9"}
HexLower == {"a", "b", "c", "d", "e", "f"}
HexUpper == {"A", "B", "C", "D", "E", "F"}
HexDigits == DecDigits \cup HexLower \cup HexUpper

toLowerChar(c) ==
    CASE c = "A" -> "a" [] c = "B" -> "b" [] c = "C" -> "c"
      [] c = "D" -> "d" [] c = "E" -> "e" [] c = "F" -> "f"
      [] c = "X" -> "x" [] c = "G" -> "g"
      [] OTHER -> c

toUpperChar(c) ==
    CASE c = "a" -> "A" [] c = "b" -> "B" [] c = "c" -> "C"
      [] c = "d" -> "D" [] c = "e" -> "E" [] c = "f" -> "F"
      [] c = "x" -> "X" [] c = "g" -> "G"
      [] OTHER -> c

toLowerCase(s) == [i \in 1..Len(s) |-> toLowerChar(s[i])]

DigitVal(c) ==
    CASE c = "0" -> 0 [] c = "1" -> 1 [] c = "2" -> 2 [] c = "3" -> 3
      [] c = "4" -> 4 [] c = "5" -> 5 [] c = "6" -> 6 [] c = "7" -> 7
      [] c = "8" -> 8 [] c = "9" -> 9
      [] toLowerChar(c) = "a" -> 10 [] toLowerChar(c) = "b" -> 11
      [] toLowerChar(c) = "c" -> 12 [] toLowerChar(c) = "d" -> 13
      [] toLowerChar(c) = "e" -> 14 [] toLowerChar(c) = "f" -> 15

Min(a, b) == IF a < b THEN a ELSE b

\* String.prototype.substring(from, to), 0-based, clamped to the string.
substring(s, from, to) == SubSeq(s, from + 1, Min(to, Len(s)))

\* String.prototype.indexOf(c) !== -1
Contains(s, c) == \E i \in 1..Len(s) : s[i] = c

-----------------------------------------------------------------------------
(* The collaborators formatter.js imports, by their contracts.  They are    *)
(* libraries outside the repository; each is modelled on the values the     *)
(* Formatter hands it.                                                      *)

\* Hex digits up to which a BigNumber's value is computed as an integer.
\* The inputs of the model hold no numeric string between this width and
\* SafeHexDigits, where toNumber would still succeed.
SmallHexDigits == 6
\* Number.MAX_SAFE_INTEGER has 14 hex digits.
SafeHexDigits == 14

IsHexBody(s) == \A i \in 1..Len(s) : s[i] \in HexDigits

\* isHexString(value, length): /^0x[0-9A-Fa-f]*$/, and 2 + 2 * length
\* characters when a length (non-zero) is given.
isHexString(val, length) ==
    /\ TypeOf(val) = "string"
    /\ Len(val[2]) >= 2
    /\ val[2][1] = "0" /\ val[2][2] = "x"
    /\ \A i \in 3..Len(val[2]) : val[2][i] \in HexDigits
    /\ (length # 0 => Len(val[2]) = 2 + 2 * length)

\* hexDataLength(data): the byte count, or null (here -1) for a string that
\* is no hex string or has an odd number of digits.
hexDataLength(val) ==
    IF ~isHexString(val, 0) \/ Len(val[2]) % 2 # 0
    THEN -1
    ELSE (Len(val[2]) - 2) \div 2

\* hexZeroPad(value, length) of a hex string: "0" digits inserted after the
\* prefix up to 2 * length digits; fails when the value is longer.
hexZeroPad(val, length) ==
    IF ~isHexString(val, 0) THEN Throw("invalid hex string")
    ELSE IF Len(val[2]) > 2 * length + 2 THEN Throw("value out of range")
    ELSE Ok(Str(<<"0", "x">> \o Chars(2 * length + 2 - Len(val[2]), "0")
                  \o SubSeq(val[2], 3, Len(val[2]))))

\* The digits without their leading zeros.
StripZeros(s) ==
    IF \A i \in 1..Len(s) : s[i] = "0" THEN <<>>
    ELSE SubSeq(s, CHOOSE i \in 1..Len(s) :
                      s[i] # "0" /\ \A j \in 1..(i - 1) : s[j] = "0",
                Len(s))

RECURSIVE DigitsToInt(_, _)
DigitsToInt(s, base) ==
    IF s = <<>> THEN 0
    ELSE base * DigitsToInt(SubSeq(s, 1, Len(s) - 1), base) + DigitVal(s[Len(s)])

\* /^-?[0-9]+$/
IsDecimalString(s) ==
    LET body == IF s # <<>> /\ Head(s) = "-" THEN Tail(s) ELSE s
    IN  body # <<>> /\ \A i \in 1..Len(body) : body[i] \in DecDigits

DecimalValue(s) ==
    IF Head(s) = "-" THEN 0 - DigitsToInt(Tail(s), 10) ELSE DigitsToInt(s, 10)

HexValue(s) ==
    Bind(StripZeros(toLowerCase(SubSeq(s, 3, Len(s)))), LAMBDA sig :
        IF Len(sig) <= SmallHexDigits THEN BN(DigitsToInt(sig, 16)) ELSE WideBN(sig))

\* isBytes(value) of an array: every element an integer in 0..255.
IsByteArray(val) ==
    /\ TypeOf(val) = "array"
    /\ \A i \in 1..Len(val[2]) :
          TypeOf(val[2][i]) = "number" /\ val[2][i][2] \in 0..255

RECURSIVE BytesToInt(_)
BytesToInt(bytes) ==
    IF bytes = <<>> THEN 0
    ELSE 256 * BytesToInt(SubSeq(bytes, 1, Len(bytes) - 1)) + bytes[Len(bytes)][2]

\* BigNumber.from(value): a BigNumber as it is, a decimal or hex string, an
\* integer, a byte array; anything else (null, undefined, objects, other
\* strings) is rejected.
BigNumberFrom(val) ==
    CASE TypeOf(val) \in {"BigNumber", "WideBigNumber"} -> Ok(val)
      [] TypeOf(val) = "string" ->
            IF IsDecimalString(val[2]) THEN Ok(BN(DecimalValue(val[2])))
            ELSE IF isHexString(val, 0) THEN Ok(HexValue(val[2]))
            ELSE Throw("invalid BigNumber string")
      [] TypeOf(val) = "number" -> Ok(BN(val[2]))
      [] IsByteArray(val) -> Ok(BN(BytesToInt(val[2])))
      [] OTHER -> Throw("invalid BigNumber value")

\* BigNumber.prototype.toNumber(): fails outside the safe-integer range.
toNumber(bn) ==
    CASE TypeOf(bn) = "BigNumber" -> Ok(Num(bn[2]))
      [] TypeOf(bn) = "WideBigNumber" /\ Len(bn[2]) > SafeHexDigits -> Throw("overflow")

\* BigNumber.prototype.isZero()
isZero(bn) == bn = BN(0)

\* The digits of an address.
AddressDigits == 40

\* The mixed-case checksum of 40 lower-case digits.  The library derives the
\* case of each letter from a hash of the address; here from its position.
getChecksumAddress(digits) ==
    [i \in 1..Len(digits) |->
        IF i % 2 = 1 THEN toUpperChar(digits[i]) ELSE digits[i]]

HasMixedCase(s) ==
    /\ \E i \in 1..Len(s) : s[i] \in HexUpper
    /\ \E i \in 1..Len(s) : s[i] \in HexLower

\* getAddress(address): 40 hex digits, prefixed or not; a mixed-case input
\* must carry the right checksum; returns the checksummed address.
getAddress(val) ==
    IF TypeOf(val) # "string" THEN Throw("invalid address")
    ELSE Bind(IF substring(val[2], 0, 2) = <<"0", "x">>
              THEN SubSeq(val[2], 3, Len(val[2])) ELSE val[2], LAMBDA body :
            IF Len(body) # AddressDigits \/ ~IsHexBody(body)
            THEN Throw("invalid address")
            ELSE Bind(getChecksumAddress(toLowerCase(body)), LAMBDA sum :
                    IF HasMixedCase(body) /\ sum # body
                    THEN Throw("bad address checksum")
                    ELSE Ok(Str(<<"0", "x">> \o sum))))

\* getAddressFromAccount("shard.realm.num"): the 20-byte address holding the
\* three numbers (4, 8 and 8 bytes).  Modelled for one-digit components.
getAddressFromAccount(val) ==
    LET s == val[2]
    IN  IF /\ Len(s) = 5
           /\ s[1] \in DecDigits /\ s[2] = "." /\ s[3] \in DecDigits
           /\ s[4] = "." /\ s[5] \in DecDigits
        THEN Ok(Str(<<"0", "x">> \o Chars(7, "0") \o <<s[1]>> \o Chars(15, "0")
                      \o <<s[3]>> \o Chars(15, "0") \o <<s[5]>>))
        ELSE Throw("invalid account")

\* The bytes of a storage key.
StorageKeyBytes == 32

\* One entry {address, storageKeys} of an access list, normalised.
accessSetify(entry) ==
    IF TypeOf(entry) # "object" THEN Throw("invalid access list")
    ELSE Bind(getAddress(Get(entry[2], "address")), LAMBDA a :
         Bind(Get(entry[2], "storageKeys"), LAMBDA keys :
            IF ~IsOk(a) THEN a
            ELSE IF TypeOf(keys) # "array" THEN Throw("invalid access list")
            ELSE IF \E i \in 1..Len(keys[2]) : ~isHexString(keys[2][i], StorageKeyBytes)
            THEN Throw("invalid storage key")
            ELSE Ok(Obj([address |-> a[2],
                         storageKeys |->
                             Arr([i \in 1..Len(keys[2]) |->
                                     Str(toLowerCase(keys[2][i][2]))])]))))

\* accessListify(value) of an array of entries; a number or a boolean has no
\* keys and gives the empty list, a non-empty string fails.
accessListify(val) ==
    CASE TypeOf(val) = "array" ->
            Bind([i \in 1..Len(val[2]) |-> accessSetify(val[2][i])], LAMBDA sets :
                IF \E i \in 1..Len(sets) : ~IsOk(sets[i])
                THEN sets[CHOOSE i \in 1..Len(sets) :
                            ~IsOk(sets[i]) /\ \A j \in 1..(i - 1) : IsOk(sets[j])]
                ELSE Ok(Arr([i \in 1..Len(sets) |-> sets[i][2]])))
      [] TypeOf(val) \in {"number", "boolean"} -> Ok(Arr(<<>>))
      [] TypeOf(val) = "string" -> Throw("reduce is not a function")

-----------------------------------------------------------------------------
(* Formatter: the scalar coercers *)

\* The digits before and after the dot of a timestamp.
SecondsDigits == 10
NanosDigits == 9

\* The pattern /([0-9]){10}[.]([0-9]){9}/ matches at offset i of s.
TimestampAt(s, i) ==
    /\ i + SecondsDigits + NanosDigits <= Len(s)
    /\ \A j \in i..(i + SecondsDigits - 1) : s[j] \in DecDigits
    /\ s[i + SecondsDigits] = "."
    /\ \A j \in (i + SecondsDigits + 1)..(i + SecondsDigits + NanosDigits) :
          s[j] \in DecDigits

\* value.match(/([0-9]){10}[.]([0-9]){9}/): a match anywhere in the string.
TimestampMatch(s) == \E i \in 1..Len(s) : TimestampAt(s, i)

\* timestamp(value); value.match is a TypeError on anything but a string.
timestamp(val) ==
    IF TypeOf(val) # "string" THEN Throw("TypeError: value.match")
    ELSE IF ~TimestampMatch(val[2]) THEN Throw("bad timestamp format")
    ELSE Ok(val)

\* accessList(accessList): accessListify(accessList || [])
accessList(val) == accessListify(IF IsFalsish(val) THEN Arr(<<>>) ELSE val)

\* number(number)
number(val) ==
    IF val = Str(<<"0", "x">>) THEN Ok(Num(0))
    ELSE Bind(BigNumberFrom(val), LAMBDA bn :
            IF IsOk(bn) THEN toNumber(bn[2]) ELSE bn)

\* type(number)
type(val) ==
    IF val = Str(<<"0", "x">>) \/ IsNullish(val) THEN Ok(Num(0))
    ELSE Bind(BigNumberFrom(val), LAMBDA bn :
            IF IsOk(bn) THEN toNumber(bn[2]) ELSE bn)

\* bigNumber(value)
bigNumber(val) == BigNumberFrom(val)

\* hex(value, strict) had it prefixed "0x" without looking at the first two
\* characters.
hexAlwaysPrefixed(val, strict) ==
    IF TypeOf(val) = "string"
    THEN Bind(IF ~strict THEN <<"0", "x">> \o val[2] ELSE val[2], LAMBDA s :
            IF isHexString(Str(s), 0) THEN Ok(Str(toLowerCase(s)))
            ELSE Throw("invalid hash"))
    ELSE Throw("invalid hash")

\* hex(value, strict)
hex(val, strict) ==
    IF TypeOf(val) = "string"
    THEN Bind(IF ~strict /\ substring(val[2], 0, 2) # <<"0", "x">>
              THEN <<"0", "x">> \o val[2] ELSE val[2], LAMBDA s :
            IF isHexString(Str(s), 0) THEN Ok(Str(toLowerCase(s)))
            ELSE Throw("invalid hash"))
    ELSE Throw("invalid hash")

\* data(value, strict)
data(val, strict) ==
    Bind(hex(val, strict), LAMBDA result :
        IF ~IsOk(result) THEN result
        ELSE IF Len(result[2][2]) % 2 # 0 THEN Throw("invalid data; odd-length")
        ELSE result)

\* address(value): value.toString() is a TypeError on null and undefined;
\* the string of any other non-string value holds no 40 hex digits, and
\* getAddress (or getAddressFromAccount) rejects it.
address(val) ==
    IF IsNullish(val) THEN Throw("TypeError: value.toString")
    ELSE IF TypeOf(val) # "string" THEN Throw("invalid address")
    ELSE IF Contains(val[2], ".")
    THEN Bind(getAddressFromAccount(val), LAMBDA a :
            IF IsOk(a) THEN getAddress(a[2]) ELSE a)
    ELSE getAddress(val)

\* contractAddress(value)
contractAddress(val) == val

\* The bytes of a transaction hash and of a topic.
Hash48Bytes == 48
Hash32Bytes == 32

\* hash48(value, strict)
hash48(val, strict) ==
    Bind(hex(val, strict), LAMBDA result :
        IF ~IsOk(result) THEN result
        ELSE IF hexDataLength(result[2]) # Hash48Bytes THEN Throw("invalid hash")
        ELSE result)

\* hash32(value, strict)
hash32(val, strict) ==
    Bind(hex(val, strict), LAMBDA result :
        IF ~IsOk(result) THEN result
        ELSE IF hexDataLength(result[2]) # Hash32Bytes THEN Throw("invalid topics hash")
        ELSE result)

\* The bytes of a uint256.
Uint256Bytes == 32

\* uint256(value)
uint256(val) ==
    IF ~isHexString(val, 0) THEN Throw("invalid uint256")
    ELSE hexZeroPad(val, Uint256Bytes)

-----------------------------------------------------------------------------
(* Formatter: the formats, the combinators and check *)

\* A coercer is named by a tuple: <<"hash48">>, <<"allowNull", f, nullValue>>,
\* <<"allowFalsish", f, replaceValue>>, <<"arrayOf", f>>.  A format is the
\* sequence of its <<key, coercer>> pairs, in the order the object literal
\* lists them (the order of `for (const key in format)`).

\* getDefaultFormats()
getDefaultFormats ==
    [ transaction |-> <<
        <<"hash", <<"hash48">>>>,
        <<"accessList", <<"allowNull", <<"accessList">>, Null>>>>,
        <<"from", <<"address">>>>,
        <<"gasLimit", <<"bigNumber">>>>,
        <<"to", <<"allowNull", <<"address">>, Null>>>>,
        <<"value", <<"bigNumber">>>>,
        <<"data", <<"data">>>>,
        <<"r", <<"allowNull", <<"uint256">>, Undef>>>>,
        <<"s", <<"allowNull", <<"uint256">>, Undef>>>>,
        <<"v", <<"allowNull", <<"number">>, Undef>>>> >>,
      transactionRequest |-> <<
        <<"from", <<"allowNull", <<"address">>, Undef>>>>,
        <<"nonce", <<"allowNull", <<"number">>, Undef>>>>,
        <<"gasLimit", <<"allowNull", <<"bigNumber">>, Undef>>>>,
        <<"gasPrice", <<"allowNull", <<"bigNumber">>, Undef>>>>,
        <<"maxPriorityFeePerGas", <<"allowNull", <<"bigNumber">>, Undef>>>>,
        <<"maxFeePerGas", <<"allowNull", <<"bigNumber">>, Undef>>>>,
        <<"to", <<"allowNull", <<"address">>, Undef>>>>,
        <<"value", <<"allowNull", <<"bigNumber">>, Undef>>>>,
        <<"data", <<"allowNull", <<"strictData">>, Undef>>>>,
        <<"type", <<"allowNull", <<"number">>, Undef>>>>,
        <<"accessList", <<"allowNull", <<"accessList">>, Null>>>> >>,
      receiptLog |-> <<
        <<"transactionIndex", <<"number">>>>,
        <<"transactionHash", <<"hash48">>>>,
        <<"address", <<"address">>>>,
        <<"topics", <<"arrayOf", <<"hash32">>>>>>,
        <<"data", <<"data">>>>,
        <<"logIndex", <<"number">>>> >>,
      receipt |-> <<
        <<"to", <<"allowNull", <<"address">>, Null>>>>,
        <<"from", <<"allowNull", <<"address">>, Null>>>>,
        <<"contractAddress", <<"allowNull", <<"address">>, Null>>>>,
        <<"timestamp", <<"timestamp">>>>,
        <<"gasUsed", <<"bigNumber">>>>,
        <<"logsBloom", <<"allowNull", <<"data">>, Undef>>>>,
        <<"transactionHash", <<"hash48">>>>,
        <<"logs", <<"arrayOf", <<"receiptLog">>>>>>,
        <<"cumulativeGasUsed", <<"bigNumber">>>>,
        <<"status", <<"allowNull", <<"number">>, Undef>>>>,
        <<"type", <<"type">>>> >>,
      filter |-> <<
        <<"fromTimestamp", <<"allowNull", <<"timestamp">>, Undef>>>>,
        <<"toTimestamp", <<"allowNull", <<"timestamp">>, Undef>>>>,
        <<"address", <<"allowNull", <<"address">>, Undef>>>>,
        <<"topics", <<"allowNull", <<"topics">>, Undef>>>> >>,
      filterLog |-> <<
        <<"timestamp", <<"timestamp">>>>,
        <<"address", <<"address">>>>,
        <<"data", <<"allowFalsish", <<"data">>, Str(<<"0", "x">>)>>>>,
        <<"topics", <<"arrayOf", <<"hash32">>>>>>,
        <<"transactionHash", <<"allowNull", <<"hash48">>, Undef>>>>,
        <<"logIndex", <<"number">>>>,
        <<"transactionIndex", <<"number">>>> >> ]

FormatKeys(format) == {format[i][1] : i \in 1..Len(format)}

\* object[key] of any value: a primitive or an array has none of the keys.
Prop(val, key) == IF TypeOf(val) = "object" THEN Get(val[2], key) ELSE Undef

RECURSIVE Call(_, _)
RECURSIVE checkFrom(_, _, _, _)
RECURSIVE arrayFrom(_, _, _, _)
RECURSIVE topics(_)
RECURSIVE topicsFrom(_, _, _)

\* The closure allowNull(format, nullValue) returns, applied to a value.
allowNull(format, nullValue, val) ==
    IF IsNullish(val) THEN Ok(nullValue) ELSE Call(format, val)

\* The closure allowFalsish(format, replaceValue) returns, applied to a value.
allowFalsish(format, replaceValue, val) ==
    IF IsFalsish(val) THEN Ok(replaceValue) ELSE Call(format, val)

\* array.forEach(value => result.push(format(value))) from element i on.
arrayFrom(format, elems, i, result) ==
    IF i > Len(elems) THEN Ok(Arr(result))
    ELSE Bind(Call(format, elems[i]), LAMBDA r :
            IF IsOk(r)
            THEN Bind(Append(result, r[2]), LAMBDA pushed :
                    arrayFrom(format, elems, i + 1, pushed))
            ELSE r)

\* The closure arrayOf(format) returns, applied to a value.
arrayOf(format, array) ==
    IF TypeOf(array) # "array" THEN Throw("not an array")
    ELSE Bind(array[2], LAMBDA elems : arrayFrom(format, elems, 1, <<>>))

\* value.map(v => this.topics(v)) from element i on.
topicsFrom(elems, i, result) ==
    IF i > Len(elems) THEN Ok(Arr(result))
    ELSE Bind(topics(elems[i]), LAMBDA r :
            IF IsOk(r)
            THEN Bind(Append(result, r[2]), LAMBDA mapped :
                    topicsFrom(elems, i + 1, mapped))
            ELSE r)

\* topics(value)
topics(val) ==
    IF TypeOf(val) = "array"
    THEN Bind(val[2], LAMBDA elems : topicsFrom(elems, 1, <<>>))
    ELSE IF ~IsNullish(val) THEN hash32(val, TRUE)
    ELSE Ok(Null)

\* check had it assigned result[key] without the `value !== undefined` test.
checkFromKeepingUndefined(format, object, i, result) ==
    IF i > Len(format) THEN Ok(Obj(result))
    ELSE IF IsNullish(object) THEN Throw("TypeError: object[key]")
    ELSE Bind(Call(format[i][2], Prop(object, format[i][1])), LAMBDA r :
            IF IsOk(r)
            THEN Bind(Put(result, format[i][1], r[2]), LAMBDA assigned :
                    checkFrom(format, object, i + 1, assigned))
            ELSE <<"throw", <<r[2][1], Key(format[i][1]), Prop(object, format[i][1])>>>>)

\* The loop of check from the i-th key on: `for (const key in format)`.
\* Reading object[key] of null or undefined is a TypeError, in the try and
\* again in the catch, so that error leaves without checkKey.
checkFrom(format, object, i, result) ==
    IF i > Len(format) THEN Ok(Obj(result))
    ELSE IF IsNullish(object) THEN Throw("TypeError: object[key]")
    ELSE Bind(Call(format[i][2], Prop(object, format[i][1])), LAMBDA r :
            IF IsOk(r)
            THEN Bind(IF r[2] # Undef THEN Put(result, format[i][1], r[2]) ELSE result,
                      LAMBDA assigned : checkFrom(format, object, i + 1, assigned))
            ELSE <<"throw", <<r[2][1], Key(format[i][1]), Prop(object, format[i][1])>>>>)

\* check(format, object)
check(format, object) ==
    Bind(format, LAMBDA f : Bind(object, LAMBDA o : checkFrom(f, o, 1, <<>>)))

\* receiptLog(value)
receiptLog(val) == check(getDefaultFormats.receiptLog, val)

\* format(value) for a coercer of the formats; a coercer bound without a
\* second argument gets strict undefined.
Call(f, val) ==
    CASE f[1] = "allowNull" -> allowNull(f[2], f[3], val)
      [] f[1] = "allowFalsish" -> allowFalsish(f[2], f[3], val)
      [] f[1] = "arrayOf" -> arrayOf(f[2], val)
      [] f[1] = "hash48" -> hash48(val, FALSE)
      [] f[1] = "hash32" -> hash32(val, FALSE)
      [] f[1] = "data" -> data(val, FALSE)
      [] f[1] = "strictData" -> data(val, TRUE)
      [] f[1] = "uint256" -> uint256(val)
      [] f[1] = "number" -> number(val)
      [] f[1] = "type" -> type(val)
      [] f[1] = "bigNumber" -> bigNumber(val)
      [] f[1] = "timestamp" -> timestamp(val)
      [] f[1] = "address" -> address(val)
      [] f[1] = "accessList" -> accessList(val)
      [] f[1] = "topics" -> topics(val)
      [] f[1] = "receiptLog" -> receiptLog(val)

-----------------------------------------------------------------------------
(* Formatter: the record-level formatters *)

\* transactionRequest(value)
transactionRequest(val) == check(getDefaultFormats.transactionRequest, val)

\* filter(value)
filter(val) == check(getDefaultFormats.filter, val)

\* filterLog(value)
filterLog(val) == check(getDefaultFormats.filterLog, val)

\* receipt(value) had it tested `if (result.status)`.
receiptByTruthyStatus(val) ==
    Bind(check(getDefaultFormats.receipt, val), LAMBDA result :
        IF IsOk(result) /\ ~IsFalsish(Prop(result[2], "status"))
        THEN Ok(Obj(Put(result[2][2], "byzantium", Bool(TRUE))))
        ELSE result)

\* receipt(value)
receipt(val) ==
    Bind(check(getDefaultFormats.receipt, val), LAMBDA result :
        IF IsOk(result) /\ ~IsNullish(Prop(result[2], "status"))
        THEN Ok(Obj(Put(result[2][2], "byzantium", Bool(TRUE))))
        ELSE result)

\* "0x0000000000000000000000000000000000000000"
ZeroAddress == Str(<<"0", "x">> \o Chars(AddressDigits, "0"))

\* `transaction.creates = this.contractAddress(transaction)` stores a
\* reference to the transaction in the transaction; the reference is this
\* value.
TransactionRef == <<"reference", "transaction">>

\* `if (transaction.gas != null && transaction.gasLimit == null)`
RenameGas(t) ==
    IF ~IsNullish(Get(t, "gas")) /\ IsNullish(Get(t, "gasLimit"))
    THEN Put(t, "gasLimit", Get(t, "gas")) ELSE t

\* `if (transaction.to && BigNumber.from(transaction.to).isZero())`: the
\* fields after the statement, or the error of BigNumber.from.
ZeroTo(t) ==
    IF IsFalsish(Get(t, "to")) THEN Ok(t)
    ELSE Bind(BigNumberFrom(Get(t, "to")), LAMBDA bn :
            IF ~IsOk(bn) THEN bn
            ELSE IF isZero(bn[2]) THEN Ok(Put(t, "to", ZeroAddress))
            ELSE Ok(t))

\* `if (transaction.input != null && transaction.data == null)`
RenameInput(t) ==
    IF ~IsNullish(Get(t, "input")) /\ IsNullish(Get(t, "data"))
    THEN Put(t, "data", Get(t, "input")) ELSE t

\* `if (transaction.to == null && transaction.creates == null)`
PopulateCreates(t) ==
    IF IsNullish(Get(t, "to")) /\ IsNullish(Get(t, "creates"))
    THEN Put(t, "creates", contractAddress(TransactionRef)) ELSE t

\* `if ((transaction.type === 1 || transaction.type === 2) && ...)`
DefaultAccessList(t) ==
    IF Get(t, "type") \in {Num(1), Num(2)} /\ IsNullish(Get(t, "accessList"))
    THEN Put(t, "accessList", Arr(<<>>)) ELSE t

\* The chainId from v had the `chainId < 0` test been left out.
ChainIdFromVUnclamped(v) == (v - 35) \div 2

\* parseInt(chainId) after chainId = (v - 35) / 2 and the clamp of a negative
\* value to 0: the quotient rounded towards zero.
ChainIdFromV(v) == IF v - 35 < 0 THEN 0 ELSE (v - 35) \div 2

\* `if (isHexString(chainId)) chainId = BigNumber.from(chainId).toNumber()`
DecodeChainId(chainId) ==
    IF isHexString(chainId, 0) THEN toNumber(BigNumberFrom(chainId)[2])
    ELSE Ok(chainId)

\* The else branch of transactionResponse's chainId: networkId, then v.
LegacyChainId(t, result) ==
    Bind(IF IsNullish(Get(t, "networkId")) /\ IsNullish(Get(result, "v"))
         THEN Get(t, "chainId") ELSE Get(t, "networkId"), LAMBDA c1 :
    Bind(DecodeChainId(c1), LAMBDA c2 :
        IF ~IsOk(c2) THEN c2
        ELSE Bind(IF TypeOf(c2[2]) # "number" /\ ~IsNullish(Get(result, "v"))
                  THEN Num(ChainIdFromV(Get(result, "v")[2])) ELSE c2[2], LAMBDA c3 :
                Ok(IF TypeOf(c3) # "number" THEN Num(0) ELSE c3))))

\* The statements of transactionResponse after Formatter.check: the record
\* with its chainId.
transactionChainId(t, result) ==
    Bind(IF ~IsNullish(Get(t, "chainId")) THEN DecodeChainId(Get(t, "chainId"))
         ELSE LegacyChainId(t, result), LAMBDA chainId :
        IF IsOk(chainId) THEN Ok(Obj(Put(result, "chainId", chainId[2])))
        ELSE chainId)

\* transactionResponse(transaction): <<what the call produced, the caller's
\* object after it>>.
transactionResponse(transaction) ==
    Bind(RenameGas(transaction[2]), LAMBDA t1 :
    Bind(ZeroTo(t1), LAMBDA z :
        IF ~IsOk(z) THEN <<z, Obj(t1)>>
        ELSE Bind(RenameInput(z[2]), LAMBDA t3 :
             Bind(PopulateCreates(t3), LAMBDA t4 :
             Bind(DefaultAccessList(t4), LAMBDA t5 :
             Bind(check(getDefaultFormats.transaction, Obj(t5)), LAMBDA result :
                IF ~IsOk(result) THEN <<result, Obj(t5)>>
                ELSE <<transactionChainId(t5, result[2][2]), Obj(t5)>>))))))

-----------------------------------------------------------------------------
(* The raw objects the formatters are called on *)

\* The longest array among the inputs.
MaxArray == 2

Hex(digits) == Str(<<"0", "x">> \o digits)

GoodHash48 == Hex(Chars(2 * Hash48Bytes, "A"))
GoodHash32 == Hex(Chars(2 * Hash32Bytes, "B"))
GoodAddress == Hex(Chars(AddressDigits, "c"))
GoodTimestamp == Str(Chars(SecondsDigits, "1") \o <<".">> \o Chars(NanosDigits, "2"))
AccountAlias == Str(<<"0", ".", "0", ".", "5">>)

\* All arrays of at most MaxArray elements of a set.
ArraysOf(elems) ==
    {Arr(a) : a \in UNION {[1..n -> elems] : n \in 0..MaxArray}}

GoodLog ==
    Obj([transactionIndex |-> Hex(<<"1">>), transactionHash |-> GoodHash48,
         address |-> GoodAddress, topics |-> Arr(<<GoodHash32>>),
         data |-> Hex(<<"A", "b">>), logIndex |-> Num(2), index |-> Num(2)])

RECURSIVE Pool(_)
\* The values a field with coercer f takes among the inputs: values the
\* coercer accepts (some of them not yet canonical) and values it rejects.
Pool(f) ==
    CASE f[1] = "allowNull" -> Pool(f[2]) \cup {Undef, Null}
      [] f[1] = "allowFalsish" -> Pool(f[2]) \cup {Undef, Null, Num(0)}
      [] f[1] = "arrayOf" -> ArraysOf(Pool(f[2])) \cup {Undef, Hex(<<"1">>)}
      [] f[1] = "hash48" ->
            {GoodHash48, Str(Chars(2 * Hash48Bytes, "d")), GoodHash32, Undef}
      [] f[1] = "hash32" -> {GoodHash32, Str(Chars(2 * Hash32Bytes, "e")), GoodAddress}
      [] f[1] \in {"data", "strictData"} ->
            {Hex(<<"A", "B", "c", "d">>), Str(<<"a", "b">>), Hex(<<"a", "b", "c">>),
             Hex(<<>>), Undef}
      [] f[1] = "uint256" -> {Hex(<<"F", "f">>), Hex(<<"1">>), Str(<<"1">>), GoodHash48}
      [] f[1] \in {"number", "type"} ->
            {Hex(<<"2", "5">>), Num(36), Num(0), Hex(<<>>), Str(<<"4", "1">>),
             GoodHash32, Undef}
      [] f[1] = "bigNumber" ->
            {Hex(<<"5", "2", "0", "8">>), Str(<<"1", "0">>), Num(7), GoodHash32,
             Str(<<"z">>), Undef}
      [] f[1] = "timestamp" ->
            {GoodTimestamp, Str(<<"x">> \o GoodTimestamp[2]), Str(Chars(SecondsDigits, "1")),
             Undef}
      [] f[1] = "address" ->
            {GoodAddress, Str(Chars(AddressDigits, "C")), AccountAlias,
             Hex(getChecksumAddress(Chars(AddressDigits, "c"))),
             Hex(<<"C">> \o Chars(AddressDigits - 1, "c")), Hex(<<"0">>), Undef}
      [] f[1] = "accessList" ->
            {Arr(<<>>), Hex(<<"1">>),
             Arr(<<Obj([address |-> GoodAddress, storageKeys |-> Arr(<<GoodHash32>>)])>>)}
      [] f[1] = "topics" ->
            {GoodHash32, Arr(<<GoodHash32, Null, Arr(<<GoodHash32>>)>>),
             Arr(<<Str(Chars(2 * Hash32Bytes, "e"))>>)}
      [] f[1] = "receiptLog" ->
            {GoodLog, Obj(Put(GoodLog[2], "data", Hex(<<"a">>))), Null}

\* The raw properties outside a format that the formatters read or ignore.
OtherKeys(fmt) ==
    IF fmt = "transaction"
    THEN {"gas", "input", "type", "chainId", "networkId", "blockNumber"}
    ELSE {"blockNumber"}

OtherPool(key) ==
    CASE key = "gas" -> {Undef, Hex(<<"5", "2", "0", "9">>), Str(<<"z">>)}
      [] key = "input" -> {Undef, Hex(<<"E", "f">>)}
      [] key = "type" -> {Undef, Num(0), Num(1), Num(2), Hex(<<"1">>)}
      [] key = "chainId" ->
            {Undef, Null, Num(5), Num(0), Num(-1), Hex(<<"5">>), Hex(<<>>),
             Str(<<"5">>), GoodHash32}
      [] key = "networkId" ->
            {Undef, Num(3), Num(-3), Hex(<<"3">>), Str(<<"z">>), GoodHash32}
      [] key = "blockNumber" -> {Undef, Num(9)}

CoercerOf(format, key) ==
    format[CHOOSE i \in 1..Len(format) : format[i][1] = key][2]

RawKeys(fmt) == FormatKeys(getDefaultFormats[fmt]) \cup OtherKeys(fmt)

RawPool(fmt, key) ==
    IF key \in FormatKeys(getDefaultFormats[fmt])
    THEN Pool(CoercerOf(getDefaultFormats[fmt], key))
    ELSE OtherPool(key)

\* A raw object every field of which is accepted.
BaseRaw(fmt) ==
    CASE fmt = "transaction" ->
            [hash |-> GoodHash48, from |-> GoodAddress, value |-> Hex(<<"1">>),
             gasLimit |-> Hex(<<"5", "2", "0", "8">>), data |-> Hex(<<"A", "b">>),
             to |-> GoodAddress, blockNumber |-> Num(9)]
      [] fmt = "transactionRequest" ->
            [from |-> GoodAddress, nonce |-> Num(1), blockNumber |-> Num(9)]
      [] fmt = "receiptLog" -> Put(GoodLog[2], "blockNumber", Num(9))
      [] fmt = "receipt" ->
            [timestamp |-> GoodTimestamp, gasUsed |-> Num(7),
             transactionHash |-> GoodHash48, logs |-> Arr(<<GoodLog>>),
             cumulativeGasUsed |-> Num(7), blockNumber |-> Num(9)]
      [] fmt = "filter" -> [fromTimestamp |-> GoodTimestamp, blockNumber |-> Num(9)]
      [] fmt = "filterLog" ->
            [timestamp |-> GoodTimestamp, address |-> GoodAddress,
             topics |-> Arr(<<GoodHash32>>), logIndex |-> Num(1),
             transactionIndex |-> Num(1), blockNumber |-> Num(9)]

\* object[key] = val, or `delete object[key]` for undefined.
With(o, key, val) ==
    IF val = Undef THEN [k \in (DOMAIN o) \ {key} |-> o[k]] ELSE Put(o, key, val)

\* The base object with up to two of its properties set to a value of the
\* property's pool.
RawObjects(fmt) ==
    {Obj(With(With(BaseRaw(fmt), k1, v1), k2, v2)) :
        <<k1, v1, k2, v2>> \in
            UNION {UNION {{k1} \X RawPool(fmt, k1) \X {k2} \X RawPool(fmt, k2)
                          : k2 \in RawKeys(fmt)} : k1 \in RawKeys(fmt)}}

-----------------------------------------------------------------------------
(* The Formatter as a state machine: a caller holds a raw object and calls  *)
(* one operation on it.                                                     *)

None == <<"none">>

Init ==
    /\ pc = "ready"
    /\ kind \in DOMAIN getDefaultFormats
    /\ obj \in RawObjects(kind)
    /\ arg = obj
    /\ op = "none"
    /\ out = None
    /\ again = None

\* A call that leaves the caller's object alone.
Returns(name, result) ==
    /\ pc = "ready"
    /\ pc' = "done"
    /\ op' = name
    /\ out' = result
    /\ UNCHANGED <<kind, arg, obj, again>>

\* Formatter.check(this.formats[kind], obj)
Check == Returns("check", check(getDefaultFormats[kind], obj))

TransactionRequest ==
    /\ kind = "transactionRequest"
    /\ Returns("transactionRequest", transactionRequest(obj))

ReceiptLog ==
    /\ kind = "receiptLog"
    /\ Returns("receiptLog", receiptLog(obj))

Receipt ==
    /\ kind = "receipt"
    /\ Returns("receipt", receipt(obj))

Filter ==
    /\ kind = "filter"
    /\ Returns("filter", filter(obj))

FilterLog ==
    /\ kind = "filterLog"
    /\ Returns("filterLog", filterLog(obj))

\* transactionResponse(obj) assigns to the properties of its argument.
TransactionResponse ==
    /\ kind = "transaction"
    /\ pc = "ready"
    /\ pc' = "done"
    /\ op' = "transactionResponse"
    /\ \E r \in {transactionResponse(obj)} :
          out' = r[1] /\ obj' = r[2]
    /\ UNCHANGED <<kind, arg, again>>

\* Formatter.check(this.formats[kind], record) on the record check returned.
Reapply ==
    /\ pc = "done"
    /\ op = "check"
    /\ IsOk(out)
    /\ pc' = "reapplied"
    /\ again' = check(getDefaultFormats[kind], out[2])
    /\ UNCHANGED <<kind, op, arg, obj, out>>

Next ==
    \/ Check
    \/ TransactionRequest
    \/ ReceiptLog
    \/ Receipt
    \/ Filter
    \/ FilterLog
    \/ TransactionResponse
    \/ Reapply

Spec == Init /\ [][Next]_vars

-----------------------------------------------------------------------------
(* Properties of the Formatter *)

Done(name) == pc = "done" /\ op = name

\* The operations that return what check returns.
CheckOps == {"check", "transactionRequest", "receiptLog", "filter", "filterLog"}

\* What the coercer of a key returns or throws on the raw object's property.
Coerced(format, raw, key) == Call(CoercerOf(format, key), Prop(raw, key))

\* C1: when check succeeds, the keys of the record are exactly the format's
\* keys whose coercer returned something other than undefined, each key holds
\* what its coercer returned for the raw object's property of that name, and
\* no raw property outside the format is in the record.
C1_RecordIsCoercedFields ==
    (pc = "done" /\ op \in CheckOps /\ IsOk(out)) =>
        LET format == getDefaultFormats[kind]
            record == out[2][2]
        IN  /\ DOMAIN record =
                  {k \in FormatKeys(format) : Coerced(format, arg, k) # Ok(Undef)}
            /\ \A k \in DOMAIN record : Ok(record[k]) = Coerced(format, arg, k)
            /\ (DOMAIN record) \cap ((DOMAIN arg[2]) \ FormatKeys(format)) = {}

\* C1's case: check returned a record, one of the coercers returned
\* undefined, and the raw object has a property that is not in the format.
C1_Witness ==
    /\ pc = "done" /\ op = "check" /\ IsOk(out)
    /\ DOMAIN out[2][2] # {}
    /\ \E k \in FormatKeys(getDefaultFormats[kind]) :
          Coerced(getDefaultFormats[kind], arg, k) = Ok(Undef)
    /\ (DOMAIN arg[2]) \ FormatKeys(getDefaultFormats[kind]) # {}

\* The first key of the format, in its order, whose coercer throws.
FirstFailing(format, raw) ==
    format[CHOOSE i \in 1..Len(format) :
              /\ ~IsOk(Call(format[i][2], Prop(raw, format[i][1])))
              /\ \A j \in 1..(i - 1) : IsOk(Call(format[j][2], Prop(raw, format[j][1])))][1]

\* C2: when a record-level formatter fails, the error the caller gets carries
\* the name of the first field (in the format's order) whose coercer fails,
\* and that field's raw value.
C2_ErrorNamesFailingField ==
    (pc = "done" /\ op # "check" /\ ~IsOk(out)) =>
        /\ out[2][2] # Undef
        /\ out[2][2] = Key(FirstFailing(getDefaultFormats[kind], obj))
        /\ out[2][3] = Prop(obj, FirstFailing(getDefaultFormats[kind], obj))

\* C3: after a call the caller's raw object has the keys and values it had
\* before the call.
C3_InputUnchanged == pc = "done" => obj = arg

\* A `to` whose numeric value is zero.
NumericZero(val) ==
    \/ val = Num(0)
    \/ /\ TypeOf(val) = "string"
       /\ IsOk(BigNumberFrom(val))
       /\ isZero(BigNumberFrom(val)[2])

\* The defaults of C4 on the fields of a raw transaction.
StatedDefaults(t) ==
    LET t1 == IF IsNullish(Get(t, "gasLimit")) /\ ~IsNullish(Get(t, "gas"))
              THEN Put(t, "gasLimit", Get(t, "gas")) ELSE t
        t2 == IF IsNullish(Get(t1, "data")) /\ ~IsNullish(Get(t1, "input"))
              THEN Put(t1, "data", Get(t1, "input")) ELSE t1
        t3 == IF NumericZero(Get(t2, "to")) THEN Put(t2, "to", ZeroAddress) ELSE t2
    IN  IF Get(t3, "type") \in {Num(1), Num(2)} /\ IsNullish(Get(t3, "accessList"))
        THEN Put(t3, "accessList", Arr(<<>>)) ELSE t3

Without(o, key) == [k \in (DOMAIN o) \ {key} |-> o[k]]

\* C4: for a raw transaction with a valid hash, from and value (and a chain
\* id that can be derived), transactionResponse returns, apart from chainId,
\* what check returns for the transaction format on the raw object after the
\* defaults: gasLimit from gas, data from input, a zero `to` as the zero
\* address, accessList [] for type 1 or 2.
C4_ResponseIsFormatAfterDefaults ==
    (/\ Done("transactionResponse")
     /\ IsOk(hash48(Prop(arg, "hash"), FALSE))
     /\ IsOk(address(Prop(arg, "from")))
     /\ IsOk(bigNumber(Prop(arg, "value")))) =>
        LET expected == check(getDefaultFormats.transaction, Obj(StatedDefaults(arg[2])))
        IN  (IsOk(expected) /\ IsOk(transactionChainId(arg[2], expected[2][2]))) =>
                /\ IsOk(out)
                /\ Without(out[2][2], "chainId") = expected[2][2]

\* The number a networkId yields, if it yields one: <<"number", n>>.
NetworkNumber(val) ==
    IF TypeOf(val) = "number" THEN val
    ELSE IF isHexString(val, 0) THEN toNumber(BigNumberFrom(val)[2])[2]
    ELSE None

\* floor((v - 35) / 2), at least 0.
StatedChainIdFromV(v) == IF v < 35 THEN 0 ELSE (v - 35) \div 2

\* The chainId C5 states for a raw transaction.
StatedChainId(raw) ==
    LET chainId == Prop(raw, "chainId")
        v == Prop(raw, "v")
    IN  IF ~IsNullish(chainId)
        THEN (IF isHexString(chainId, 0) THEN toNumber(BigNumberFrom(chainId)[2])[2]
              ELSE chainId)
        ELSE IF NetworkNumber(Prop(raw, "networkId")) # None
        THEN NetworkNumber(Prop(raw, "networkId"))
        ELSE IF ~IsNullish(v) THEN Num(StatedChainIdFromV(number(v)[2][2]))
        ELSE Num(0)

IsNonNegativeInteger(val) == TypeOf(val) = "number" /\ val[2] >= 0

\* The chainId is a value the raw object gave and the code passed through: an
\* explicit chainId that is no hex string, or a networkId that is a number.
PassedThrough(raw) ==
    IF ~IsNullish(Prop(raw, "chainId")) THEN ~isHexString(Prop(raw, "chainId"), 0)
    ELSE TypeOf(Prop(raw, "networkId")) = "number"

\* C5 as stated: when transactionResponse succeeds, result.chainId is the
\* explicit chainId (decoded when a hex string), else the number networkId
\* yields, else floor((v - 35) / 2) clamped to 0 when v is present, else 0;
\* and in every case a non-negative integer.
C5_ChainIdAlwaysNonNegativeInteger ==
    (Done("transactionResponse") /\ IsOk(out)) =>
        /\ out[2][2].chainId = StatedChainId(arg)
        /\ IsNonNegativeInteger(out[2][2].chainId)

\* C5 amended: result.chainId is derived as stated; it is a non-negative
\* integer whenever it was decoded from a hex string, derived from v or
\* defaulted to 0, and is the raw value as given otherwise.
C5_ChainIdDerivation ==
    (Done("transactionResponse") /\ IsOk(out)) =>
        /\ out[2][2].chainId = StatedChainId(arg)
        /\ ~PassedThrough(arg) => IsNonNegativeInteger(out[2][2].chainId)

\* C5's case: no chainId and no networkId, and a v below 35, clamped to 0.
C5_Witness ==
    /\ Done("transactionResponse") /\ IsOk(out)
    /\ IsNullish(Prop(arg, "chainId")) /\ IsNullish(Prop(arg, "networkId"))
    /\ "v" \in DOMAIN out[2][2] /\ out[2][2].v[2] < 35
    /\ out[2][2].chainId = Num(0)

\* C7: when receipt succeeds, the result has byzantium === true exactly when
\* the raw status is not null or undefined; with a null or absent status it
\* has neither a status nor a byzantium key.
C7_ByzantiumIffStatus ==
    (Done("receipt") /\ IsOk(out)) =>
        /\ ("byzantium" \in DOMAIN out[2][2] /\ Prop(out[2], "byzantium") = Bool(TRUE))
               <=> ~IsNullish(Prop(arg, "status"))
        /\ IsNullish(Prop(arg, "status")) =>
               {"status", "byzantium"} \cap DOMAIN out[2][2] = {}

\* C7's case: a status that is present and falsy (0) still sets byzantium.
C7_Witness ==
    /\ Done("receipt") /\ IsOk(out)
    /\ Prop(out[2], "status") = Num(0)
    /\ Prop(out[2], "byzantium") = Bool(TRUE)

\* C9: applying a format to the record it produced succeeds and yields the
\* same record.
C9_CheckIdempotent ==
    pc = "reapplied" => (IsOk(again) /\ again = out)

\* C9's case: the first application changed a value (the raw one was not
\* canonical), and the format was applied again to the record.
C9_Witness ==
    /\ pc = "reapplied"
    /\ \E k \in DOMAIN out[2][2] : out[2][2][k] # Prop(arg, k)

-----------------------------------------------------------------------------
(* timestamp(value) on its own *)

\* The longest run of characters put before and after a timestamp.
MaxPad == 1

PadChars == {"7", ".", "x"}

Pads == UNION {[1..n -> PadChars] : n \in 0..MaxPad}

\* Ten digits, a dot and nine digits, and the strings next to it: a digit
\* more or less on either side, another separator or none.
TimestampCores ==
    {Chars(a, "1") \o sep \o Chars(b, "2") :
        a \in (SecondsDigits - 1)..(SecondsDigits + 1),
        b \in (NanosDigits - 1)..(NanosDigits + 1),
        sep \in {<<".">>, <<"x">>, <<>>}}

TimestampInputs ==
    {Str(before \o core \o after) :
        before \in Pads, core \in TimestampCores, after \in Pads}
    \cup {Undef, Null, Num(1)}

InitTimestamp ==
    /\ pc = "ready"
    /\ kind = "timestamp"
    /\ obj \in TimestampInputs
    /\ arg = obj
    /\ op = "none"
    /\ out = None
    /\ again = None

Timestamp ==
    /\ kind = "timestamp"
    /\ Returns("timestamp", timestamp(obj))

SpecTimestamp == InitTimestamp /\ [][Timestamp]_vars

\* ^\d{10}\.\d{9}$
IsTimestamp(s) == Len(s) = SecondsDigits + 1 + NanosDigits /\ TimestampAt(s, 1)

\* C6: timestamp(value) returns value exactly when the whole string is 10
\* digits, a dot and 9 digits, and fails on every other string.
C6_TimestampAnchored ==
    (Done("timestamp") /\ TypeOf(arg) = "string") =>
        /\ IsOk(out) <=> IsTimestamp(arg[2])
        /\ IsOk(out) => out[2] = arg

-----------------------------------------------------------------------------
(* The seeded byte generator *)

\* The bytes of a keccak256 digest.
HashBytes == 32

\* The longest seed and the largest upper among the inputs.
MaxSeed == 1
MaxUpper == 66

SeedChars == {"s", "e", "d"}

CharCode(c) == CASE c = "s" -> 115 [] c = "e" -> 101 [] c = "d" -> 100

\* hethers.utils.toUtf8Bytes(seed), for a seed of ASCII characters.
toUtf8Bytes(s) == [i \in 1..Len(s) |-> CharCode(s[i])]

\* A number that depends on the length of the bytes and on their first,
\* middle and last one.
Mix(bytes) ==
    IF bytes = <<>> THEN 77
    ELSE 3 * bytes[1] + 7 * bytes[(Len(bytes) + 1) \div 2] + 5 * bytes[Len(bytes)]
         + 131 * Len(bytes)

\* hethers.utils.keccak256(bytes), arrayified: a digest of HashBytes bytes
\* that is a function of the bytes alone.  The library's digest is replaced
\* by one that can be computed here.
keccak256(bytes) ==
    Bind(bytes, LAMBDA b :
    Bind(Mix(b), LAMBDA d :
        [i \in 1..HashBytes |-> (d * (2 * i + 1) + 89 * i * i) % 256]))

\* ((top[0] << 16) | (top[1] << 8) | top[2])
Top24(top) == top[1] * 65536 + top[2] * 256 + top[3]

RECURSIVE ExtendTo(_, _)
\* `while (result.length < upper) result = concat([result, keccak256(result)])`
ExtendTo(result, upper) ==
    IF Len(result) < upper
    THEN Bind(result \o keccak256(result), LAMBDA longer : ExtendTo(longer, upper))
    ELSE result

Bytes(b) == <<"Uint8Array", b>>

\* randomBytes had `if (!upper) upper = lower` been left out (upper
\* omitted reads as 0).
randomBytesWithoutDefault(seed, lower, upper) ==
    Bind(IF upper = Undef THEN Num(0) ELSE upper, LAMBDA up :
        IF up = Num(0) /\ up = lower THEN Bytes(<<>>)
        ELSE Bind(ExtendTo(keccak256(toUtf8Bytes(seed[2])), up[2]), LAMBDA result :
             Bind(Top24(keccak256(result)), LAMBDA top :
                Bytes(SubSeq(result, 1,
                             lower[2] + ((up[2] - lower[2]) * top) \div 16777216)))))

\* randomBytes(seed, lower, upper); upper is undefined when omitted.
randomBytes(seed, lower, upper) ==
    Bind(IF IsFalsish(upper) THEN lower ELSE upper, LAMBDA up :
        IF up = Num(0) /\ up = lower THEN Bytes(<<>>)
        ELSE Bind(ExtendTo(keccak256(toUtf8Bytes(seed[2])), up[2]), LAMBDA result :
             Bind(Top24(keccak256(result)), LAMBDA top :
                Bytes(SubSeq(result, 1,
                             lower[2] + ((up[2] - lower[2]) * top) \div 16777216)))))

Seeds == UNION {[1..n -> SeedChars] : n \in 0..MaxSeed}

\* seed, lower and upper with 0 <= lower <= upper, upper given or omitted.
RandomInputs ==
    {<<Str(seed), Num(lower), Num(upper)>> :
        seed \in Seeds, lower \in 0..MaxUpper, upper \in 0..MaxUpper}
    \cup {<<Str(seed), Num(lower), Undef>> : seed \in Seeds, lower \in 0..MaxUpper}

InitRandom ==
    /\ pc = "ready"
    /\ kind = "randomBytes"
    /\ obj \in {a \in RandomInputs : a[3] = Undef \/ a[2][2] <= a[3][2]}
    /\ arg = obj
    /\ op = "none"
    /\ out = None
    /\ again = None

RandomBytes ==
    /\ kind = "randomBytes"
    /\ Returns("randomBytes", Ok(randomBytes(obj[1], obj[2], obj[3])))

SpecRandom == InitRandom /\ [][RandomBytes]_vars

RECURSIVE Chained(_, _)
\* The accumulator after k extensions: hash(seed), each time followed by
\* the hash of what there is.
Chained(seed, k) ==
    IF k = 0 THEN keccak256(toUtf8Bytes(seed))
    ELSE LET before == Chained(seed, k - 1) IN before \o keccak256(before)

\* The first accumulator of the chain with at least upper bytes.
Accumulator(seed, upper) ==
    Chained(seed, IF upper <= HashBytes THEN 0 ELSE (upper - 1) \div HashBytes)

\* C8: randomBytes returns the first lower + floor((upper - lower) * percent)
\* bytes of the hash-chained accumulator, percent the 24-bit fraction of the
\* first three bytes of its hash (upper is lower when omitted); the length
\* is within [lower, upper], and randomBytes(seed, 0, 0) is empty.
C8_RandomBytesPrefix ==
    Done("randomBytes") =>
        LET lower == arg[2][2]
            upper == IF arg[3] = Undef THEN lower ELSE arg[3][2]
            acc == Accumulator(arg[1][2], upper)
            length == lower + ((upper - lower) * Top24(keccak256(acc))) \div 16777216
        IN  /\ out = Ok(Bytes(SubSeq(acc, 1, length)))
            /\ Len(out[2][2]) \in lower..upper
            /\ (lower = 0 /\ upper = 0) => out[2][2] = <<>>

\* C8's case: upper omitted with a lower beyond one digest, so that the
\* accumulator was extended and lower bytes of it were returned.
C8_Witness ==
    /\ Done("randomBytes")
    /\ arg[3] = Undef
    /\ arg[2][2] > HashBytes
    /\ Len(out[2][2]) = arg[2][2]

-----------------------------------------------------------------------------
(* The adapters responseFromRecord and receiptFromResponse *)

\* `x ? x : otherwise`
OrElse(val, otherwise) == IF IsFalsish(val) THEN otherwise ELSE val

\* responseFromRecord(record)
responseFromRecord(record) ==
    Bind(IF Prop(record, "gas_limit") # Undef
         THEN BigNumberFrom(Prop(record, "gas_limit")) ELSE Ok(Null), LAMBDA gasLimit :
    Bind(BigNumberFrom(OrElse(Prop(record, "amount"), Num(0))), LAMBDA amount :
        IF ~IsOk(gasLimit) THEN gasLimit
        ELSE IF ~IsOk(amount) THEN amount
        ELSE Ok(Obj(
            [chainId |-> OrElse(Prop(record, "chainId"), Null),
             hash |-> Prop(record, "hash"),
             timestamp |-> Prop(record, "timestamp"),
             transactionId |-> OrElse(Prop(record, "transactionId"), Null),
             from |-> Prop(record, "from"),
             to |-> OrElse(Prop(record, "to"), Null),
             data |-> OrElse(Prop(record, "call_result"), Null),
             gasLimit |-> gasLimit[2],
             value |-> amount[2],
             customData |-> Obj(
                [gas_used |-> OrElse(Prop(record, "gas_used"), Null),
                 logs |-> OrElse(Prop(record, "logs"), Null),
                 result |-> OrElse(Prop(record, "result"), Null),
                 accountAddress |-> OrElse(Prop(record, "accountAddress"), Null),
                 transfersList |-> OrElse(Prop(record, "transfersList"), Arr(<<>>))]),
             wait |-> Null]))))

\* `response.customData?.key`
Custom(response, key) ==
    IF IsNullish(Prop(response, "customData")) THEN Undef
    ELSE Prop(Prop(response, "customData"), key)

\* The object pushed for one log of response.customData.logs.
ResponseLog(response, log) ==
    Obj([timestamp |-> Prop(response, "timestamp"),
         address |-> Prop(log, "address"),
         data |-> Prop(log, "data"),
         topics |-> Prop(log, "topics"),
         transactionHash |-> Prop(response, "hash"),
         logIndex |-> Prop(log, "index"),
         transactionIndex |-> Prop(log, "index")])

\* receiptFromResponse(response); `?.forEach` of logs that are neither
\* nullish nor an array is a TypeError, and so is `log.address` of a
\* nullish log.
receiptFromResponse(response) ==
    Bind(Custom(response, "logs"), LAMBDA logs :
        IF ~IsNullish(logs) /\ TypeOf(logs) # "array"
        THEN Throw("TypeError: forEach")
        ELSE IF ~IsNullish(logs) /\ \E i \in 1..Len(logs[2]) : IsNullish(logs[2][i])
        THEN Throw("TypeError: log.address")
        ELSE Ok(Obj(
            [to |-> IF Prop(response, "data") # Hex(<<>>) THEN Null
                    ELSE Prop(response, "to"),
             from |-> Prop(response, "from"),
             timestamp |-> Prop(response, "timestamp"),
             contractAddress |-> IF Prop(response, "data") # Hex(<<>>)
                                 THEN Prop(response, "to") ELSE Null,
             gasUsed |-> Custom(response, "gas_used"),
             logsBloom |-> Null,
             transactionId |-> Prop(response, "transactionId"),
             transactionHash |-> Prop(response, "hash"),
             logs |-> IF IsNullish(logs) THEN Arr(<<>>)
                      ELSE Arr([i \in 1..Len(logs[2]) |->
                                   ResponseLog(response, logs[2][i])]),
             cumulativeGasUsed |-> Custom(response, "gas_used"),
             type |-> Num(0),
             byzantium |-> Bool(TRUE),
             status |-> IF Custom(response, "result") =
                              Str(<<"S", "U", "C", "C", "E", "S", "S">>)
                        THEN Num(1) ELSE Num(0),
             accountAddress |-> OrElse(Custom(response, "accountAddress"), Null)])))

-----------------------------------------------------------------------------
(* The adapters as a state machine: a caller holds a record or a response   *)
(* and calls the adapter for it.                                            *)

Success == Str(<<"S", "U", "C", "C", "E", "S", "S">>)

RecordLog ==
    Obj([address |-> GoodAddress, data |-> Hex(<<"A", "b">>),
         topics |-> Arr(<<GoodHash32>>), index |-> Num(2)])

\* A record every field of which is present and truthy.
BaseRecord ==
    [chainId |-> Num(5), hash |-> GoodHash48, timestamp |-> GoodTimestamp,
     transactionId |-> Str(<<"0", ".", "0", ".", "5", "@", "1">>),
     from |-> GoodAddress, to |-> GoodAddress,
     call_result |-> Hex(<<"A", "b">>), gas_limit |-> Num(7), amount |-> Num(3),
     gas_used |-> Num(9), logs |-> Arr(<<RecordLog>>), result |-> Success,
     accountAddress |-> AccountAlias,
     transfersList |-> Arr(<<Obj([to |-> AccountAlias, amount |-> Num(3)])>>)]

\* The values a field of a record takes: absent, falsy ones, and others.
RecordPool(key) ==
    {Undef, Null, Num(0), Str(<<>>)} \cup
    CASE key \in {"gas_limit", "amount", "gas_used"} ->
            {Num(4), Hex(<<"5", "2", "0", "8">>), Str(<<"z">>)}
      [] key = "call_result" -> {Hex(<<>>), Hex(<<"c", "d">>)}
      [] key = "result" -> {Str(<<"F", "A", "I", "L">>)}
      [] key \in {"logs", "transfersList"} -> {Arr(<<>>)}
      [] OTHER -> {}

\* The base record with up to two of its fields set to a value of the
\* field's pool.
Records ==
    {Obj(With(With(BaseRecord, k1, v1), k2, v2)) :
        <<k1, v1, k2, v2>> \in
            UNION {UNION {{k1} \X RecordPool(k1) \X {k2} \X RecordPool(k2)
                          : k2 \in DOMAIN BaseRecord} : k1 \in DOMAIN BaseRecord}}

\* The responses: what responseFromRecord returns for the records, and
\* responses that lack customData or whose logs are no array of logs.
Responses ==
    {responseFromRecord(r)[2] : r \in {x \in Records : IsOk(responseFromRecord(x))}}
    \cup {Obj(With(responseFromRecord(Obj(BaseRecord))[2][2], "customData", c)) :
            c \in {Undef, Null, Obj([logs |-> Num(1)]), Obj([logs |-> Arr(<<Null>>)])}}

InitAdapter ==
    /\ pc = "ready"
    /\ \/ kind = "record" /\ obj \in Records
       \/ kind = "response" /\ obj \in Responses
    /\ arg = obj
    /\ op = "none"
    /\ out = None
    /\ again = None

ResponseFromRecord ==
    /\ kind = "record"
    /\ Returns("responseFromRecord", responseFromRecord(obj))

ReceiptFromResponse ==
    /\ kind = "response"
    /\ Returns("receiptFromResponse", receiptFromResponse(obj))

NextAdapter == ResponseFromRecord \/ ReceiptFromResponse

SpecAdapter == InitAdapter /\ [][NextAdapter]_vars

\* A source value and the value an output field holds are the same value:
\* identical, or the BigNumber of the source value.
SameValue(source, held) ==
    \/ held = source
    \/ /\ TypeOf(held) \in {"BigNumber", "WideBigNumber"}
       /\ BigNumberFrom(source) = Ok(held)

\* The value appears in the output, at the top level or under customData.
Preserved(source, output) ==
    \/ \E k \in DOMAIN output[2] : SameValue(source, output[2][k])
    \/ /\ TypeOf(Prop(output, "customData")) = "object"
       /\ \E k \in DOMAIN Prop(output, "customData")[2] :
              SameValue(source, Prop(output, "customData")[2][k])

\* The fields of the source object: its own, and for a response those of
\* its customData, whose logs are reshaped rather than copied.
SourceValues(source) ==
    {source[2][k] : k \in (DOMAIN source[2]) \ {"customData", "wait"}}
    \cup (IF TypeOf(Prop(source, "customData")) = "object"
          THEN {Prop(source, "customData")[2][k] :
                  k \in (DOMAIN Prop(source, "customData")[2]) \ {"logs"}}
          ELSE {})

\* C10: whenever responseFromRecord or receiptFromResponse returns, every
\* field of the source object has its value, unchanged, in the output:
\* under a canonical name or under customData.
C10_AdaptersPreserveFields ==
    (pc = "done" /\ IsOk(out)) =>
        \A v \in SourceValues(arg) : Preserved(v, out[2])

=============================================================================
